---- MODULE Spec2Model ----
(***************************************************************************)
(* Model of subnet-scraper.py: parse_args, the ping_ip_* probes, the       *)
(* thread-pool coordinator ping_subnet_with_threadpool, display_progress,  *)
(* output and main; and of the sequential scanner of os_detector.py.       *)
(*                                                                         *)
(* Strings are sequences of one-character strings, so that str.replace,    *)
(* the file-name f-string and the ipaddress parser are computed character  *)
(* by character.                                                           *)
(***************************************************************************)
EXTENDS Integers, Sequences, FiniteSets, TLC

(***************************************************************************)
(* Bounds of the model.                                                    *)
(***************************************************************************)
\* Stand-in for ThreadPoolExecutor()'s default max_workers,
\* min(32, os.cpu_count() + 4), scaled down to keep the state space small.
MaxWorkers == 2
\* Number of rows of an input CSV file.
MaxRows == 2
\* Number of times the command is run against the same results directory.
MaxRuns == 2
\* Largest total of a direct call of display_progress.
MaxTotal == 40
\* Largest number of host bits of the subnets given to a direct call of
\* parse_args (prefix lengths 32 - MaxHostBits .. 32).
MaxHostBits == 9

(***************************************************************************)
(* Character-level helpers (Python str / list operations).                 *)
(***************************************************************************)
DigitChars == <<"0", "1", "2", "3", "4", "5", "6", "7", "8", "9">>

IsDigit(c) == \E i \in 1..10 : DigitChars[i] = c

DigitVal(c) == (CHOOSE i \in 1..10 : DigitChars[i] = c) - 1

\* str.isascii() and str.isdigit() on a non-empty string
AllDigits(s) == Len(s) > 0 /\ \A i \in 1..Len(s) : IsDigit(s[i])

RECURSIVE DecValue(_)
\* int(s, 10) on a string of decimal digits
DecValue(s) ==
    IF Len(s) = 0 THEN 0
    ELSE 10 * DecValue(SubSeq(s, 1, Len(s) - 1)) + DigitVal(s[Len(s)])

RECURSIVE DecString(_)
\* str(n) for a natural number n
DecString(n) ==
    IF n < 10 THEN <<DigitChars[n + 1]>>
    ELSE DecString(n \div 10) \o <<DigitChars[(n % 10) + 1]>>

RECURSIVE Split(_, _)
\* s.split(ch): the segments of s between occurrences of ch
Split(s, ch) ==
    IF \A i \in 1..Len(s) : s[i] # ch THEN <<s>>
    ELSE LET k == CHOOSE i \in 1..Len(s) :
                      s[i] = ch /\ \A j \in 1..(i - 1) : s[j] # ch
         IN  <<SubSeq(s, 1, k - 1)>> \o Split(SubSeq(s, k + 1, Len(s)), ch)

\* s.replace(old, new) for one-character old and new
StrReplace(s, old, new) == [i \in 1..Len(s) |-> IF s[i] = old THEN new ELSE s[i]]

RECURSIVE Pow2(_)
Pow2(n) == IF n = 0 THEN 1 ELSE 2 * Pow2(n - 1)

Range(s) == {s[i] : i \in 1..Len(s)}

(***************************************************************************)
(* ipaddress.IPv4Network(text) and network.hosts(), as parse_args uses     *)
(* them.  Only the "address" and "address/prefixlen" notations are         *)
(* modelled; the inputs below contain no netmask notation.                 *)
(***************************************************************************)
\* one octet: 1..3 decimal digits, no leading zero, value <= 255
ValidOctet(seg) ==
    /\ AllDigits(seg)
    /\ Len(seg) <= 3
    /\ (Len(seg) > 1 => seg[1] # "0")
    /\ DecValue(seg) <= 255

\* the dotted quad as a 32-bit number, or -1 (AddressValueError)
ParseAddress(s) ==
    LET octets == Split(s, ".")
    IN  IF Len(octets) = 4 /\ \A i \in 1..4 : ValidOctet(octets[i])
        THEN DecValue(octets[1]) * 16777216 + DecValue(octets[2]) * 65536
             + DecValue(octets[3]) * 256 + DecValue(octets[4])
        ELSE -1

\* the prefix length, or -1 (NetmaskValueError)
ParsePrefix(s) ==
    IF AllDigits(s) /\ DecValue(s) <= 32 THEN DecValue(s) ELSE -1

\* IPv4Network(text), strict: [ok, network_address, prefixlen];
\* ok = FALSE stands for the ValueError the constructor raises
IPv4Network(text) ==
    LET parts  == Split(text, "/")
        addr   == IF Len(parts) \in {1, 2} THEN ParseAddress(parts[1]) ELSE -1
        prefix == IF Len(parts) = 2 THEN ParsePrefix(parts[2])
                  ELSE IF Len(parts) = 1 THEN 32 ELSE -1
        bad    == [ok |-> FALSE, network_address |-> 0, prefixlen |-> 0]
    IN  IF addr < 0 \/ prefix < 0 THEN bad
        ELSE IF addr % Pow2(32 - prefix) # 0 THEN bad   \* has host bits set
        ELSE [ok |-> TRUE, network_address |-> addr, prefixlen |-> prefix]

\* str(IPv4Address(n)): dotted decimal
FormatAddress(n) ==
    DecString(n \div 16777216) \o <<".">> \o DecString((n \div 65536) % 256)
    \o <<".">> \o DecString((n \div 256) % 256) \o <<".">> \o DecString(n % 256)

\* iterating the network itself instead of network.hosts(): every address
HostNumbersAll(net) ==
    [i \in 1..Pow2(32 - net.prefixlen) |-> net.network_address + i - 1]

\* network.hosts() as numbers: every address but the network and the
\* broadcast address; both addresses of a /31; the one address of a /32
HostNumbers(net) ==
    LET size == Pow2(32 - net.prefixlen)
        lo   == net.network_address
    IN  IF net.prefixlen = 32 THEN <<lo>>
        ELSE IF net.prefixlen = 31 THEN <<lo, lo + 1>>
        ELSE [i \in 1..(size - 2) |-> lo + i]

\* [str(ip) for ip in network.hosts()]
SubnetIps(net) ==
    LET h == HostNumbers(net) IN [i \in 1..Len(h) |-> FormatAddress(h[i])]

(***************************************************************************)
(* Inputs: the command lines and CSV files the model runs the program on.  *)
(***************************************************************************)
\* "1.0.0.0/30": hosts 1.0.0.1 and 1.0.0.2
NetA == <<"1", ".", "0", ".", "0", ".", "0", "/", "3", "0">>
\* "1.0.0.0/31": hosts 1.0.0.0 and 1.0.0.1 (shares 1.0.0.1 with NetA)
NetB == <<"1", ".", "0", ".", "0", ".", "0", "/", "3", "1">>
\* "1.0.0.8/29": six hosts, 1.0.0.9 .. 1.0.0.14
NetC == <<"1", ".", "0", ".", "0", ".", "8", "/", "2", "9">>
\* "1.0.0.5": a single address, read as a /32
NetD == <<"1", ".", "0", ".", "0", ".", "5">>
\* "not-a-subnet"
BadWord == <<"n", "o", "t", "-", "a", "-", "s", "u", "b", "n", "e", "t">>
\* "1.0.0.0_30": NetA with its '/' already replaced
BadUnderscore == <<"1", ".", "0", ".", "0", ".", "0", "_", "3", "0">>
\* "1.0.0.1/30": host bits set
BadHostBits == <<"1", ".", "0", ".", "0", ".", "1", "/", "3", "0">>

\* values of -n/--network
NetworkArgs == {NetA, NetB, NetC, NetD, BadWord, BadUnderscore, BadHostBits}

\* rows of a CSV file as csv.reader yields them: lists of cells
\* (<<>> is a blank line; the second NetA row carries surrounding blanks)
RowCandidates == {<<>>, <<NetA>>, <<NetB>>, <<BadWord>>, <<<<" ">> \o NetA \o <<" ">>>>}

RECURSIVE SeqsUpTo(_, _)
\* the sequences over S of length at most n
SeqsUpTo(S, n) ==
    IF n = 0 THEN {<<>>}
    ELSE LET shorter == SeqsUpTo(S, n - 1)
         IN  shorter \cup {Append(q, x) : q \in {r \in shorter : Len(r) = n - 1}, x \in S}

Files == SeqsUpTo(RowCandidates, MaxRows)

\* the -i/--input file as the program finds it
FileStates == [exists : {TRUE}, rows : Files] \cup {[exists |-> FALSE, rows |-> <<>>]}

\* argparse: exactly one of -n and -i is given
Argvs ==
    {[network |-> <<n>>, input |-> <<>>] : n \in NetworkArgs}
    \cup {[network |-> <<>>, input |-> <<f>>] : f \in FileStates}

\* platform.system().lower()
Platforms == {"windows", "linux", "darwin"}

\* days of November 2026 on which the program is run
Days == {6, 7}

(***************************************************************************)
(* parse_args                                                              *)
(***************************************************************************)
RECURSIVE Strip(_)
\* str.strip() for blanks
Strip(s) ==
    IF Len(s) > 0 /\ s[1] = " " THEN Strip(Tail(s))
    ELSE IF Len(s) > 0 /\ s[Len(s)] = " " THEN Strip(SubSeq(s, 1, Len(s) - 1))
    ELSE s

\* subnet_map is a dict: keys in insertion order, assigning to a key that
\* exists keeps its position and replaces its value
DictSet(d, k, v) ==
    IF \E i \in 1..Len(d) : d[i].key = k
    THEN [i \in 1..Len(d) |-> IF d[i].key = k THEN [key |-> k, value |-> v] ELSE d[i]]
    ELSE Append(d, [key |-> k, value |-> v])

\* lines 129-133 and 147-151: one subnet accepted
AddSubnet(st, subnet) ==
    LET subnet_ips == SubnetIps(IPv4Network(subnet))
    IN  [ip_list    |-> st.ip_list \o subnet_ips,
         subnet_map |-> DictSet(st.subnet_map, subnet, subnet_ips),
         out        |-> Append(st.out, [kind |-> "parsed", subnet |-> subnet,
                                        count |-> Len(subnet_ips)])]

\* lines 152-153: one row rejected with a warning
SkipSubnet(st, subnet) ==
    [st EXCEPT !.out = Append(@, [kind |-> "warning", subnet |-> subnet])]

RECURSIVE ReadRowsStopAtInvalid(_, _)
\* the loop over the rows with the try/except around the loop instead of
\* inside it: the first invalid row ends the reading
ReadRowsStopAtInvalid(rows, st) ==
    IF Len(rows) = 0 THEN st
    ELSE LET row    == Head(rows)
             subnet == Strip(row[1])
         IN  IF Len(row) = 0 THEN ReadRowsStopAtInvalid(Tail(rows), st)
             ELSE IF IPv4Network(subnet).ok
             THEN ReadRowsStopAtInvalid(Tail(rows), AddSubnet(st, subnet))
             ELSE SkipSubnet(st, subnet)

RECURSIVE ReadRows(_, _)
\* lines 143-153: the loop over the rows of the CSV file
ReadRows(rows, st) ==
    IF Len(rows) = 0 THEN st
    ELSE LET row    == Head(rows)
             subnet == Strip(row[1])
         IN  IF Len(row) = 0 THEN ReadRows(Tail(rows), st)
             ELSE IF IPv4Network(subnet).ok
             THEN ReadRows(Tail(rows), AddSubnet(st, subnet))
             ELSE ReadRows(Tail(rows), SkipSubnet(st, subnet))

EmptyParse == [ip_list |-> <<>>, subnet_map |-> <<>>, out |-> <<>>]

\* parse_args without the exit(1) of line 157: a file with no valid subnet
\* prints the error and returns
ParseArgsResultNoExit(av) ==
    LET fail(st, what) ==
            [exit |-> TRUE, ip_list |-> <<>>, subnet_map |-> <<>>,
             out |-> Append(st.out, [kind |-> "error", what |-> what])]
        done(st) ==
            [exit |-> FALSE, ip_list |-> st.ip_list, subnet_map |-> st.subnet_map,
             out |-> Append(st.out, [kind |-> "total", count |-> Len(st.ip_list)])]
    IN  IF Len(av.network) = 1
        THEN IF IPv4Network(av.network[1]).ok
             THEN done(AddSubnet(EmptyParse, av.network[1]))
             ELSE fail(EmptyParse, "Error parsing subnet")
        ELSE IF ~av.input[1].exists
             THEN fail(EmptyParse, "CSV file not found")
             ELSE LET st == ReadRows(av.input[1].rows, EmptyParse)
                  IN  IF Len(st.ip_list) = 0
                      THEN done([st EXCEPT !.out = Append(@,
                                   [kind |-> "error",
                                    what |-> "No valid subnets found in the CSV file"])])
                      ELSE done(st)

\* parse_args: [exit, ip_list, subnet_map, out]; exit = TRUE is exit(1)
ParseArgsResult(av) ==
    LET fail(st, what) ==
            [exit |-> TRUE, ip_list |-> <<>>, subnet_map |-> <<>>,
             out |-> Append(st.out, [kind |-> "error", what |-> what])]
        done(st) ==
            [exit |-> FALSE, ip_list |-> st.ip_list, subnet_map |-> st.subnet_map,
             out |-> Append(st.out, [kind |-> "total", count |-> Len(st.ip_list)])]
    IN  IF Len(av.network) = 1
        THEN IF IPv4Network(av.network[1]).ok
             THEN done(AddSubnet(EmptyParse, av.network[1]))
             ELSE fail(EmptyParse, "Error parsing subnet")
        ELSE IF ~av.input[1].exists
             THEN fail(EmptyParse, "CSV file not found")
             ELSE LET st == ReadRows(av.input[1].rows, EmptyParse)
                  IN  IF Len(st.ip_list) = 0
                      THEN fail(st, "No valid subnets found in the CSV file")
                      ELSE done(st)

(***************************************************************************)
(* check_os and the probes ping_ip_windows / ping_ip_linux                 *)
(***************************************************************************)
check_os(system) ==
    IF system = "windows" THEN "windows"
    ELSE IF system = "linux" THEN "linux"
    ELSE "other"

\* What subprocess.run can do for one ping: raise (the executable cannot be
\* spawned), or complete with a return code and a stdout that does or does
\* not contain "Reply from".
SpawnError == [raised |-> TRUE, returncode |-> 1, reply_from |-> FALSE]

RunOutcomes(installed) ==
    {SpawnError}
    \cup (IF installed
          THEN [raised : {FALSE}, returncode : {0, 1}, reply_from : BOOLEAN]
          ELSE {})

\* ping_ip_windows: the value returned for an outcome of subprocess.run
ping_ip_windows(run) ==
    IF run.raised THEN FALSE
    ELSE IF run.returncode = 0 /\ run.reply_from THEN TRUE
    ELSE FALSE

\* ping_ip_linux: the value returned for an outcome of subprocess.run
ping_ip_linux(run) ==
    IF run.raised THEN FALSE
    ELSE IF run.returncode = 0 THEN TRUE
    ELSE FALSE

\* the probes without their try/except: a failure to spawn escapes
ProbeCallUnguarded(ping_function, run) ==
    [raised |-> run.raised,
     value  |-> IF run.raised THEN FALSE
                ELSE IF ping_function = "windows" THEN ping_ip_windows(run)
                ELSE ping_ip_linux(run)]

\* A call ping_function(ip) in a worker: [raised, value].  The two probes of
\* the program never raise; "injected" is a caller-supplied ping_function
\* that lets the failure of its mechanism escape.
ProbeCall(ping_function, run) ==
    IF ping_function = "windows"
    THEN [raised |-> FALSE, value |-> ping_ip_windows(run)]
    ELSE IF ping_function = "linux"
    THEN [raised |-> FALSE, value |-> ping_ip_linux(run)]
    ELSE [raised |-> run.raised, value |-> (~run.raised /\ run.returncode = 0)]

(***************************************************************************)
(* display_progress                                                        *)
(***************************************************************************)
\* Python list indexing: 0-based, negative indices count from the end
PyIndex(list, i) == IF i < 0 THEN list[Len(list) + i + 1] ELSE list[i + 1]

\* list.index(x): 0-based position of the first occurrence
ListIndex(list, x) == (CHOOSE i \in 1..Len(list) :
                           list[i] = x /\ \A j \in 1..(i - 1) : list[j] # x) - 1

Min(a, b) == IF a <= b THEN a ELSE b

\* the progress points with round() in place of int()
progress_points_rounded(total) ==
    <<1, (total + 2) \div 4, (total + 1) \div 2, (3 * total + 2) \div 4, total>>

\* line 183: [1, int(total * 0.25), int(total * 0.5), int(total * 0.75), total]
progress_points(total) ==
    <<1, total \div 4, total \div 2, (3 * total) \div 4, total>>

\* line 185
AtProgressPoint(current, total) ==
    current \in Range(progress_points(total)) \/ current = total

\* ip.split('.')[-1]
HostPart(ip) == PyIndex(Split(ip, "."), -1)

\* display_progress: the lines it prints (none, or one notification).
\* reachable_count is <<>> for None and <<n>> for a number; the field "at"
\* records the argument current.
display_progress(subnet, current, total, subnet_ips, reachable_count) ==
    IF ~AtProgressPoint(current, total) THEN <<>>
    ELSE LET percent   == (100 * current) \div total
             points    == progress_points(total)
             first_raw == IF current = 1 THEN 0
                          ELSE PyIndex(points, ListIndex(points, current) - 1)
             first_idx == Min(first_raw, Len(subnet_ips) - 1)
             last_idx  == Min(current - 1, Len(subnet_ips) - 1)
         IN  IF Len(reachable_count) = 1 /\ current = total
             THEN <<[kind |-> "final", subnet |-> subnet, at |-> current,
                     reachable |-> reachable_count[1]]>>
             ELSE <<[kind |-> "progress", subnet |-> subnet, at |-> current,
                     percent |-> percent,
                     first_host |-> HostPart(PyIndex(subnet_ips, first_idx)),
                     last_host |-> HostPart(PyIndex(subnet_ips, last_idx))]>>

(***************************************************************************)
(* output: file names and records                                          *)
(***************************************************************************)
\* datetime.now().strftime("%d%b%Y").upper() on a day of November 2026
FormatDate(day) ==
    (IF day < 10 THEN <<"0">> ELSE <<>>) \o DecString(day)
    \o <<"N", "O", "V", "2", "0", "2", "6">>

\* the subnet without its prefix length
subnet_address_only(subnet) == Split(subnet, "/")[1]

\* line 239: subnet.replace('/', '_')
subnet_clean(subnet) == StrReplace(subnet, "/", "_")

\* line 240: f"{current_date}_ping results_{subnet_clean}.csv"
FileName(current_date, subnet) ==
    current_date \o <<"_", "p", "i", "n", "g", " ", "r", "e", "s", "u", "l", "t", "s", "_">> \o subnet_clean(subnet)
    \o <<".", "c", "s", "v">>

\* str(value) for a bool, not lowered
StrBool(b) == IF b THEN "True" ELSE "False"

\* str(value).lower() for a bool
LowerBool(b) == IF b THEN "true" ELSE "false"

\* results.get(ip, False)
DictGet(results, ip, default) == IF ip \in DOMAIN results THEN results[ip] ELSE default

HeaderRow == <<"IP Address", "Reachable">>

\* lines 252-256: the rows csv_writer is given for one subnet
RecordRows(results, ips) ==
    <<HeaderRow>> \o [i \in 1..Len(ips) |-> <<ips[i], LowerBool(DictGet(results, ips[i], FALSE))>>]

(***************************************************************************)
(* State                                                                   *)
(***************************************************************************)
VARIABLES
    entry,          \* the function the run entered: "main", or a direct call
    argv,           \* the command line (with the input file as found)
    platform,       \* platform.system().lower()
    ping_installed, \* whether the ping executable can be spawned
    today,          \* the day datetime.now() reports
    fs,             \* the results directory: file name -> rows written
    runs,           \* how many times the command has been started
    pc,             \* position of the main thread
    exit_status,    \* <<>> while running, <<code>> once the process has ended
    ip_list,        \* parse_args: every address, in input order
    subnet_map,     \* parse_args: subnet -> its addresses (a dict)
    ping_function,  \* main: the probe selected for the platform
    results,        \* main: address -> bool, merged over the subnets
    si,             \* main: position in subnet_map.items()
    scan,           \* locals of ping_subnet_with_threadpool
    futures,        \* ping_subnet_with_threadpool: the list of (future, ip)
    executor,       \* the ThreadPoolExecutor of the current scan
    current_date,   \* output: the date string
    oi,             \* output: position in subnet_map.items()
    console,        \* the lines printed, as records
    probe_calls,    \* history: per address of the current scan, the probe
                    \* calls submitted and what each returned
    arrived,        \* history: subnet -> addresses whose probe has finished
    overtaken,      \* history: a probe of the current scan finished before
                    \* one that was submitted earlier
    written,        \* history: (date, subnet) -> how often its file was
                    \* opened for writing
    subnet_results, \* history: subnet -> the map its scan returned (main's
                    \* subnet_results of line 350, kept per subnet)
    slept           \* the time spent in time.sleep, in milliseconds

vars == <<entry, argv, platform, ping_installed, today, fs, runs, pc, exit_status,
          ip_list, subnet_map, ping_function, results, si, scan, futures,
          executor, current_date, oi, console, probe_calls, arrived, overtaken,
          written, subnet_results, slept>>

env_vars == <<entry, argv, platform, ping_installed, today, runs>>

parse_vars == <<ip_list, subnet_map>>

scan_vars == <<scan, futures, executor, probe_calls, arrived, overtaken,
               subnet_results, slept>>

out_vars == <<current_date, oi, fs, written>>

EmptyMap == [x \in {} |-> FALSE]

\* results, subnet_reachable, completed, total: the locals of lines 279-282;
\* fi: position of the loop of line 295 in futures; returned: the function
\* has returned results (main's subnet_results); arg_reachable_count: the
\* argument reachable_count of a direct call of display_progress
NoScan == [subnet |-> <<>>, subnet_ips |-> <<>>, results |-> EmptyMap,
           subnet_reachable |-> 0, completed |-> 0, total |-> 0, fi |-> 1,
           returned |-> FALSE, arg_reachable_count |-> <<>>]

NoExecutor == [alive |-> FALSE, max_workers |-> 0, work_queue |-> <<>>, running |-> {}]

\* the state of a process that has just been started
Fresh ==
    /\ pc = "parse_args"
    /\ exit_status = <<>>
    /\ ip_list = <<>>
    /\ subnet_map = <<>>
    /\ ping_function = "none"
    /\ results = EmptyMap
    /\ si = 1
    /\ scan = NoScan
    /\ futures = <<>>
    /\ executor = NoExecutor
    /\ current_date = <<>>
    /\ oi = 1
    /\ console = <<>>
    /\ probe_calls = EmptyMap
    /\ arrived = EmptyMap
    /\ overtaken = FALSE
    /\ subnet_results = EmptyMap
    /\ slept = 0

\* the command is run once, on an empty results directory
InitMain ==
    /\ entry = "main"
    /\ argv \in Argvs
    /\ platform \in Platforms
    /\ ping_installed \in BOOLEAN
    /\ today \in Days
    /\ fs = EmptyMap
    /\ runs = 1
    /\ written = EmptyMap
    /\ Fresh

(***************************************************************************)
(* main, lines 327-342                                                     *)
(***************************************************************************)
\* line 329: parse_args(); exit(1) ends the process with status 1
ParseArgs ==
    /\ pc = "parse_args"
    /\ LET r == ParseArgsResult(argv)
       IN  /\ console' = console \o r.out
           /\ ip_list' = r.ip_list
           /\ subnet_map' = r.subnet_map
           /\ IF r.exit
              THEN pc' = "exited" /\ exit_status' = <<1>>
              ELSE pc' = "check_os" /\ exit_status' = exit_status
    /\ UNCHANGED <<env_vars, ping_function, results, si, scan_vars, out_vars>>

\* lines 332-345: select the probe, or return on an unsupported platform
CheckOs ==
    /\ pc = "check_os"
    /\ LET os_type == check_os(platform)
       IN  IF os_type \in {"windows", "linux"}
           THEN /\ ping_function' = os_type
                /\ console' = Append(console, [kind |-> "os", os |-> os_type])
                /\ pc' = IF Len(subnet_map) = 0 THEN "summary" ELSE "scan"
                /\ exit_status' = exit_status
           ELSE /\ ping_function' = ping_function
                /\ console' = console \o <<[kind |-> "os", os |-> os_type],
                                           [kind |-> "unsupported", os |-> os_type]>>
                /\ pc' = "done"
                /\ exit_status' = <<0>>
    /\ UNCHANGED <<env_vars, parse_vars, results, si, scan_vars, out_vars>>

(***************************************************************************)
(* ping_subnet_with_threadpool, lines 264-318                              *)
(***************************************************************************)
\* d[k] = v on a dict without order
MapSet(d, k, v) == [x \in DOMAIN d \cup {k} |-> IF x = k THEN v ELSE d[x]]

\* lines 279-287: the locals and the executor of one scan
ScanStart ==
    /\ pc = "scan"
    /\ LET subnet     == subnet_map[si].key
           subnet_ips == subnet_map[si].value
       IN  /\ scan' = [NoScan EXCEPT !.subnet = subnet, !.subnet_ips = subnet_ips,
                                     !.total = Len(subnet_ips)]
           /\ console' = Append(console, [kind |-> "start_scan", subnet |-> subnet,
                                          total |-> Len(subnet_ips)])
           /\ probe_calls' = [ip \in Range(subnet_ips) |->
                                 [submitted |-> 0, returned |-> <<>>]]
           /\ arrived' = MapSet(arrived, subnet, {})
           /\ pc' = IF Len(subnet_ips) = 0 THEN "collect" ELSE "submit"
    /\ futures' = <<>>
    /\ overtaken' = FALSE
    /\ executor' = [alive |-> TRUE, max_workers |-> MaxWorkers,
                    work_queue |-> <<>>, running |-> {}]
    /\ UNCHANGED <<env_vars, parse_vars, ping_function, results, si, exit_status,
                   out_vars, subnet_results, slept>>

\* the submit loop with the pacing delay of the sequential scanner kept in
\* it: time.sleep(0.1) after each submission
SubmitPaced ==
    /\ pc = "submit"
    /\ LET i  == Len(futures) + 1
           ip == scan.subnet_ips[i]
       IN  /\ futures' = Append(futures, [ip |-> ip, state |-> "PENDING",
                                          raised |-> FALSE, value |-> FALSE])
           /\ executor' = [executor EXCEPT
                              !.work_queue = Append(@, [future |-> i, ip |-> ip])]
           /\ probe_calls' = [probe_calls EXCEPT ![ip].submitted = @ + 1]
           /\ pc' = IF i = Len(scan.subnet_ips) THEN "collect" ELSE "submit"
    /\ slept' = slept + 100
    /\ UNCHANGED <<env_vars, parse_vars, ping_function, results, si, exit_status,
                   scan, arrived, overtaken, out_vars, console, subnet_results>>

\* lines 290-292: executor.submit(ping_function, ip); futures.append((future, ip))
Submit ==
    /\ pc = "submit"
    /\ LET i  == Len(futures) + 1
           ip == scan.subnet_ips[i]
       IN  /\ futures' = Append(futures, [ip |-> ip, state |-> "PENDING",
                                          raised |-> FALSE, value |-> FALSE])
           /\ executor' = [executor EXCEPT
                              !.work_queue = Append(@, [future |-> i, ip |-> ip])]
           /\ probe_calls' = [probe_calls EXCEPT ![ip].submitted = @ + 1]
           /\ pc' = IF i = Len(scan.subnet_ips) THEN "collect" ELSE "submit"
    /\ UNCHANGED <<env_vars, parse_vars, ping_function, results, si, exit_status,
                   scan, arrived, overtaken, out_vars, console, subnet_results,
                   slept>>

\* whether a worker thread is free to take the next work item
CanStartUnbounded(ex) == TRUE

CanStart(ex) == Cardinality(ex.running) < ex.max_workers

\* a worker thread takes the oldest queued work item and begins the call:
\* its guard, and the step
CanWorkerStart ==
    /\ executor.alive
    /\ Len(executor.work_queue) > 0
    /\ CanStart(executor)

WorkerStart ==
    /\ CanWorkerStart
    /\ LET w == Head(executor.work_queue)
       IN  /\ executor' = [executor EXCEPT !.work_queue = Tail(@),
                                           !.running = @ \cup {w}]
           /\ futures' = [futures EXCEPT ![w.future].state = "RUNNING"]
    /\ UNCHANGED <<env_vars, parse_vars, ping_function, results, si, exit_status,
                   pc, scan, probe_calls, arrived, overtaken, out_vars, console,
                   subnet_results, slept>>

\* the future whose result a finished work item sets
ResultSlotCompletionOrder(w) ==
    CHOOSE j \in 1..Len(futures) :
        /\ futures[j].state # "FINISHED"
        /\ \A k \in 1..(j - 1) : futures[k].state = "FINISHED"

ResultSlot(w) == w.future

\* a call ping_function(ip) is running in a worker
CanWorkerFinish == executor.alive /\ executor.running # {}

\* a worker's call ping_function(ip) ends and the future is completed
WorkerFinish ==
    /\ CanWorkerFinish
    /\ \E w \in executor.running, run \in RunOutcomes(ping_installed) :
          LET r == ProbeCall(ping_function, run)
          IN  /\ futures' = [futures EXCEPT ![ResultSlot(w)] =
                                [@ EXCEPT !.state = "FINISHED",
                                          !.raised = r.raised, !.value = r.value]]
              /\ executor' = [executor EXCEPT !.running = @ \ {w}]
              /\ probe_calls' = [probe_calls EXCEPT ![w.ip].returned = Append(@, r)]
              /\ arrived' = [arrived EXCEPT ![scan.subnet] = @ \cup {w.ip}]
              /\ overtaken' = (overtaken \/ \E j \in 1..(w.future - 1) :
                                               futures[j].state # "FINISHED")
    /\ UNCHANGED <<env_vars, parse_vars, ping_function, results, si, exit_status,
                   pc, scan, out_vars, console, subnet_results, slept>>

\* future.result() returns once the future is finished
FutureReadyNoWait(f) == TRUE

FutureReady(f) == f.state = "FINISHED"

\* the try block with display_progress given the reachable count as it was
\* before this outcome was counted
OnProbeResultStaleCount(sc, ip, is_reachable) ==
    LET completed        == sc.completed + 1
        subnet_reachable == sc.subnet_reachable + (IF is_reachable THEN 1 ELSE 0)
    IN  [scan |-> [sc EXCEPT !.results = MapSet(@, ip, is_reachable),
                             !.completed = completed,
                             !.subnet_reachable = subnet_reachable],
         out  |-> display_progress(sc.subnet, completed, sc.total, sc.subnet_ips,
                                   IF completed = sc.total
                                   THEN <<sc.subnet_reachable>> ELSE <<>>)]

\* lines 297-312: the try block for a future whose call returned
OnProbeResult(sc, ip, is_reachable) ==
    LET completed        == sc.completed + 1
        subnet_reachable == sc.subnet_reachable + (IF is_reachable THEN 1 ELSE 0)
    IN  [scan |-> [sc EXCEPT !.results = MapSet(@, ip, is_reachable),
                             !.completed = completed,
                             !.subnet_reachable = subnet_reachable],
         out  |-> display_progress(sc.subnet, completed, sc.total, sc.subnet_ips,
                                   IF completed = sc.total
                                   THEN <<subnet_reachable>> ELSE <<>>)]

\* lines 313-316: the except block for a future whose call raised
OnProbeErrorOmit(sc, ip) ==
    [scan |-> [sc EXCEPT !.completed = @ + 1],
     out  |-> <<[kind |-> "probe_error", ip |-> ip]>>]

OnProbeError(sc, ip) ==
    [scan |-> [sc EXCEPT !.results = MapSet(@, ip, FALSE), !.completed = @ + 1],
     out  |-> <<[kind |-> "probe_error", ip |-> ip]>>]

\* the loop of line 295 has a next future and future.result() returns
CanCollect ==
    /\ pc = "collect"
    /\ scan.fi <= Len(futures)
    /\ FutureReady(futures[scan.fi])

\* a variant of the loop of line 295 that submits an address again when its
\* probe did not answer
CollectRetry ==
    /\ CanCollect
    /\ LET f == futures[scan.fi]
           r == IF f.raised THEN OnProbeError(scan, f.ip)
                ELSE OnProbeResult(scan, f.ip, f.value)
           again == ~f.value /\ probe_calls[f.ip].submitted < 2
       IN  /\ scan' = [r.scan EXCEPT !.fi = @ + 1]
           /\ console' = console \o r.out
           /\ futures' = IF again
                         THEN Append(futures, [ip |-> f.ip, state |-> "PENDING",
                                               raised |-> FALSE, value |-> FALSE])
                         ELSE futures
           /\ executor' = IF again
                          THEN [executor EXCEPT !.work_queue =
                                   Append(@, [future |-> Len(futures) + 1, ip |-> f.ip])]
                          ELSE executor
           /\ probe_calls' = IF again
                             THEN [probe_calls EXCEPT ![f.ip].submitted = @ + 1]
                             ELSE probe_calls
           /\ pc' = IF scan.fi = Len(futures') THEN "shutdown" ELSE "collect"
    /\ UNCHANGED <<env_vars, parse_vars, ping_function, results, si, exit_status,
                   arrived, overtaken, out_vars, subnet_results, slept>>

\* lines 295-316: one iteration of "for future, ip in futures"
Collect ==
    /\ CanCollect
    /\ LET f == futures[scan.fi]
           r == IF f.raised THEN OnProbeError(scan, f.ip)
                ELSE OnProbeResult(scan, f.ip, f.value)
       IN  /\ scan' = [r.scan EXCEPT !.fi = @ + 1]
           /\ console' = console \o r.out
           /\ pc' = IF scan.fi = Len(futures) THEN "shutdown" ELSE "collect"
    /\ UNCHANGED <<env_vars, parse_vars, ping_function, results, si, exit_status,
                   futures, executor, probe_calls, arrived, overtaken, out_vars,
                   subnet_results, slept>>

\* results.update(subnet_results)
DictUpdate(d, e) == [x \in DOMAIN d \cup DOMAIN e |-> IF x \in DOMAIN e THEN e[x] ELSE d[x]]

\* lines 287 and 318: leaving the with block waits for the workers
\* (shutdown(wait=True)), then the function returns results; in main,
\* lines 350-357 merge them and move to the next subnet: the guard, and the
\* step
\* returning as soon as every address is submitted, without collecting the
\* outcomes and without waiting for the workers (shutdown(wait=False))
CanScanReturnEarly ==
    /\ pc \in {"collect", "shutdown"}
    /\ executor.alive

CanScanReturn ==
    /\ pc \in {"collect", "shutdown"}
    /\ scan.fi > Len(futures)
    /\ executor.alive
    /\ executor.running = {}
    /\ Len(executor.work_queue) = 0

\* a variant of the return of line 318 that persists the record of a subnet
\* as soon as its scan has returned, instead of leaving it to output()
ScanReturnSaving ==
    /\ CanScanReturn
    /\ executor' = NoExecutor
    /\ futures' = <<>>
    /\ scan' = [scan EXCEPT !.returned = TRUE]
    /\ subnet_results' = MapSet(subnet_results, scan.subnet, scan.results)
    /\ IF entry = "main"
       THEN /\ results' = DictUpdate(results, scan.results)
            /\ si' = si + 1
            /\ pc' = IF si = Len(subnet_map) THEN "summary" ELSE "scan"
            /\ fs' = MapSet(fs, FileName(FormatDate(today), scan.subnet),
                            RecordRows(scan.results, scan.subnet_ips))
            /\ written' = MapSet(written, <<FormatDate(today), scan.subnet>>,
                                 DictGet(written, <<FormatDate(today), scan.subnet>>, 0) + 1)
       ELSE /\ results' = scan.results
            /\ si' = si
            /\ pc' = "returned"
            /\ fs' = fs
            /\ written' = written
    /\ UNCHANGED <<env_vars, parse_vars, ping_function, exit_status, probe_calls,
                   arrived, overtaken, current_date, oi, console, slept>>

ScanReturn ==
    /\ CanScanReturn
    /\ executor' = NoExecutor
    /\ futures' = <<>>
    /\ scan' = [scan EXCEPT !.returned = TRUE]
    /\ subnet_results' = MapSet(subnet_results, scan.subnet, scan.results)
    /\ IF entry = "main"
       THEN /\ results' = DictUpdate(results, scan.results)
            /\ si' = si + 1
            /\ pc' = IF si = Len(subnet_map) THEN "summary" ELSE "scan"
       ELSE /\ results' = scan.results
            /\ si' = si
            /\ pc' = "returned"
    /\ UNCHANGED <<env_vars, parse_vars, ping_function, exit_status, probe_calls,
                   arrived, overtaken, out_vars, console, slept>>

(***************************************************************************)
(* main, lines 359-366, and output, lines 219-262                          *)
(***************************************************************************)
\* sum(1 for is_reachable in results.values() if is_reachable)
CountReachable(d) == Cardinality({x \in DOMAIN d : d[x]})

\* lines 360-363, the summary; then output() is entered and line 232 reads
\* the date
Summarize ==
    /\ pc = "summary"
    /\ console' = Append(console, [kind |-> "summary",
                                   reachable |-> CountReachable(results),
                                   total |-> Len(ip_list)])
    /\ current_date' = FormatDate(today)
    /\ oi' = 1
    /\ IF Len(subnet_map) = 0
       THEN pc' = "done" /\ exit_status' = <<0>>
       ELSE pc' = "output" /\ exit_status' = exit_status
    /\ UNCHANGED <<env_vars, parse_vars, ping_function, results, si, scan_vars,
                   fs, written>>

\* What writing one record can do: succeed; fail before the file is opened
\* (os.makedirs or open raises); or fail after open() has truncated the file
\* and "kept" of its rows have reached the disk.
WriteOutcomes(rows) ==
    {[kind |-> "ok", kept |-> Len(rows)], [kind |-> "open_failed", kept |-> 0]}
    \cup {[kind |-> "write_failed", kept |-> k] : k \in 0..(Len(rows) - 1)}

\* the lines printed by one iteration of the loop of line 235
WriteReport(subnet, filename, outcome) ==
    <<[kind |-> "writing", subnet |-> subnet, filename |-> filename],
      IF outcome.kind = "ok"
      THEN [kind |-> "saved", subnet |-> subnet, filename |-> filename]
      ELSE [kind |-> "write_error", subnet |-> subnet, filename |-> filename]>>

\* a variant of the loop of line 235 that leaves the loop at the first
\* failure
OutputWriteAbort ==
    /\ pc = "output"
    /\ LET subnet   == subnet_map[oi].key
           ips      == subnet_map[oi].value
           filename == FileName(current_date, subnet)
           rows     == RecordRows(results, ips)
       IN  \E outcome \in WriteOutcomes(rows) :
              /\ console' = console \o WriteReport(subnet, filename, outcome)
              /\ fs' = IF outcome.kind = "open_failed" THEN fs
                       ELSE MapSet(fs, filename, SubSeq(rows, 1, outcome.kept))
              /\ written' = IF outcome.kind = "open_failed" THEN written
                            ELSE MapSet(written, <<current_date, subnet>>,
                                        DictGet(written, <<current_date, subnet>>, 0) + 1)
              /\ oi' = oi + 1
              /\ IF oi = Len(subnet_map) \/ outcome.kind # "ok"
                 THEN pc' = "done" /\ exit_status' = <<0>>
                 ELSE pc' = "output" /\ exit_status' = exit_status
    /\ UNCHANGED <<env_vars, parse_vars, ping_function, results, si, scan_vars,
                   current_date>>

\* lines 235-262: one iteration of "for subnet, ips in subnet_map.items()";
\* after the last one output returns and main ends
OutputWrite ==
    /\ pc = "output"
    /\ LET subnet   == subnet_map[oi].key
           ips      == subnet_map[oi].value
           filename == FileName(current_date, subnet)
           rows     == RecordRows(results, ips)
       IN  \E outcome \in WriteOutcomes(rows) :
              /\ console' = console \o WriteReport(subnet, filename, outcome)
              /\ fs' = IF outcome.kind = "open_failed" THEN fs
                       ELSE MapSet(fs, filename, SubSeq(rows, 1, outcome.kept))
              /\ written' = IF outcome.kind = "open_failed" THEN written
                            ELSE MapSet(written, <<current_date, subnet>>,
                                        DictGet(written, <<current_date, subnet>>, 0) + 1)
              /\ oi' = oi + 1
              /\ IF oi = Len(subnet_map)
                 THEN pc' = "done" /\ exit_status' = <<0>>
                 ELSE pc' = "output" /\ exit_status' = exit_status
    /\ UNCHANGED <<env_vars, parse_vars, ping_function, results, si, scan_vars,
                   current_date>>

(***************************************************************************)
(* KeyboardInterrupt during the scans, lines 287 and 368-369               *)
(***************************************************************************)
\* the user interrupts the run while main is in its loop over the subnets
\* (lines 348-357): KeyboardInterrupt is raised in the main thread, before
\* the executor of the next scan exists or inside the with block
Interrupt ==
    /\ entry = "main"
    /\ pc \in {"scan", "submit", "collect", "shutdown"}
    /\ pc' = "interrupted"
    /\ UNCHANGED <<env_vars, parse_vars, ping_function, results, si, exit_status,
                   scan_vars, out_vars, console>>

\* leaving the with block without waiting (shutdown(wait=False))
CanInterruptExitNoWait == pc = "interrupted"

\* the exception leaves the with block: ThreadPoolExecutor.__exit__ is
\* shutdown(wait=True), which returns when no work item is queued or running
CanInterruptExit ==
    /\ pc = "interrupted"
    /\ executor.alive => (executor.running = {} /\ Len(executor.work_queue) = 0)

\* lines 287 and 368-369: the with block is left, the exception reaches
\* main's handler, which prints its line, and main returns
InterruptExit ==
    /\ CanInterruptExit
    /\ executor' = NoExecutor
    /\ futures' = <<>>
    /\ console' = Append(console, [kind |-> "interrupted"])
    /\ pc' = "done"
    /\ exit_status' = <<0>>
    /\ UNCHANGED <<env_vars, parse_vars, ping_function, results, si, scan,
                   probe_calls, arrived, overtaken, subnet_results, slept, out_vars>>

(***************************************************************************)
(* An exception during the scans, lines 284-292 and 370-371                *)
(***************************************************************************)
\* a call of the main thread raises an exception that no handler of
\* ping_subnet_with_threadpool catches: print (line 284), ThreadPoolExecutor()
\* (line 287) or executor.submit (line 291), which raises RuntimeError when
\* no thread can be started.  The calls of the loop of line 295 are inside
\* its try block and their exceptions are handled at line 313.
UnexpectedError ==
    /\ entry = "main"
    /\ pc \in {"scan", "submit"}
    /\ pc' = "failed"
    /\ UNCHANGED <<env_vars, parse_vars, ping_function, results, si, exit_status,
                   scan_vars, out_vars, console>>

\* lines 287 and 370-371: the with block, if it was entered, is left as
\* shutdown(wait=True) returns; the exception reaches main's last handler,
\* which prints its line, and main returns
UnexpectedErrorExit ==
    /\ pc = "failed"
    /\ executor.alive => (executor.running = {} /\ Len(executor.work_queue) = 0)
    /\ executor' = NoExecutor
    /\ futures' = <<>>
    /\ console' = Append(console, [kind |-> "unexpected_error"])
    /\ pc' = "done"
    /\ exit_status' = <<0>>
    /\ UNCHANGED <<env_vars, parse_vars, ping_function, results, si, scan,
                   probe_calls, arrived, overtaken, subnet_results, slept, out_vars>>

(***************************************************************************)
(* os_detector.py: the sequential scanner                                  *)
(***************************************************************************)
\* os_detector.py lines 46-70 and 96-120: the outcome recorded for one
\* address, given what subprocess.run did
ping_subnet_outcome(os_type, run) ==
    IF run.raised THEN FALSE
    ELSE IF os_type = "windows" THEN run.returncode = 0 /\ run.reply_from
    ELSE run.returncode = 0

\* os_detector.py lines 143-155 and 39-42 (89-92): main detects the platform
\* and calls ping_subnet_windows or ping_subnet_linux, which parses the
\* subnet; the ValueError of an invalid subnet is caught nowhere and ends
\* the process with status 1
SeqStart ==
    /\ pc = "seq_main"
    /\ LET os_type == check_os(platform)
           net     == IPv4Network(argv.network[1])
       IN  IF os_type = "other"
           THEN /\ console' = console \o <<[kind |-> "os", os |-> os_type],
                                           [kind |-> "unsupported", os |-> os_type]>>
                /\ pc' = "done"
                /\ exit_status' = <<0>>
                /\ UNCHANGED <<ping_function, scan>>
           ELSE IF ~net.ok
           THEN /\ console' = Append(console, [kind |-> "os", os |-> os_type])
                /\ pc' = "exited"
                /\ exit_status' = <<1>>
                /\ ping_function' = os_type
                /\ scan' = scan
           ELSE /\ console' = console \o <<[kind |-> "os", os |-> os_type],
                                           [kind |-> "pinging", subnet |-> argv.network[1]]>>
                /\ pc' = "seq_ping"
                /\ exit_status' = exit_status
                /\ ping_function' = os_type
                /\ scan' = [NoScan EXCEPT !.subnet = argv.network[1],
                                          !.subnet_ips = SubnetIps(net),
                                          !.total = Len(SubnetIps(net))]
    /\ UNCHANGED <<env_vars, parse_vars, results, si, futures, executor, probe_calls,
                   arrived, overtaken, subnet_results, slept, out_vars>>

\* os_detector.py lines 44-70 (94-120): the probe of the next address runs
\* in the calling thread and its outcome is recorded and printed
SeqPing ==
    /\ pc = "seq_ping"
    /\ \E run \in RunOutcomes(ping_installed) :
          LET ip       == scan.subnet_ips[scan.fi]
              is_reach == ping_subnet_outcome(ping_function, run)
          IN  /\ results' = MapSet(results, ip, is_reach)
              /\ console' = console \o
                     <<[kind |-> "executing", ip |-> ip],
                       [kind |-> IF run.raised THEN "ping_error"
                                 ELSE IF is_reach THEN "reachable" ELSE "not_reachable",
                        ip |-> ip]>>
    /\ pc' = "seq_sleep"
    /\ UNCHANGED <<env_vars, parse_vars, ping_function, si, exit_status, scan_vars,
                   out_vars>>

\* os_detector.py line 73 (123): time.sleep(0.1), then the next address, or
\* the return of the results and the end of main
SeqSleep ==
    /\ pc = "seq_sleep"
    /\ slept' = slept + 100
    /\ scan' = [scan EXCEPT !.fi = @ + 1]
    /\ IF scan.fi = Len(scan.subnet_ips)
       THEN pc' = "done" /\ exit_status' = <<0>>
       ELSE pc' = "seq_ping" /\ exit_status' = exit_status
    /\ UNCHANGED <<env_vars, parse_vars, ping_function, results, si, futures,
                   executor, probe_calls, arrived, overtaken, subnet_results,
                   out_vars, console>>

(***************************************************************************)
(* Running the command again, and direct calls                             *)
(***************************************************************************)
\* the command lines of the runs that share a results directory
RerunArgvs ==
    {[network |-> <<n>>, input |-> <<>>] : n \in {NetA, NetB, BadUnderscore}}

\* after the process has ended the user starts the command again, on the
\* same day or a later one; the results directory is kept
Rerun ==
    /\ entry = "main"
    /\ pc \in {"done", "exited"}
    /\ runs < MaxRuns
    /\ runs' = runs + 1
    /\ argv' \in RerunArgvs
    /\ today' \in {d \in Days : d >= today}
    /\ pc' = "parse_args"
    /\ exit_status' = <<>>
    /\ ip_list' = <<>>
    /\ subnet_map' = <<>>
    /\ ping_function' = "none"
    /\ results' = EmptyMap
    /\ si' = 1
    /\ scan' = NoScan
    /\ futures' = <<>>
    /\ executor' = NoExecutor
    /\ current_date' = <<>>
    /\ oi' = 1
    /\ console' = <<>>
    /\ probe_calls' = EmptyMap
    /\ arrived' = EmptyMap
    /\ overtaken' = FALSE
    /\ subnet_results' = EmptyMap
    /\ slept' = 0
    /\ UNCHANGED <<entry, platform, ping_installed, fs, written>>

\* a list of n addresses, 1.0.0.1 .. 1.0.0.n
AddressList(n) == [i \in 1..n |-> FormatAddress(16777216 + i)]

\* display_progress(subnet, current, total, subnet_ips, reachable_count)
\* called directly
DisplayProgressCall ==
    /\ pc = "display_progress"
    /\ console' = console \o display_progress(scan.subnet, scan.completed, scan.total,
                                              scan.subnet_ips, scan.arg_reachable_count)
    /\ pc' = "returned"
    /\ UNCHANGED <<env_vars, parse_vars, ping_function, results, si, exit_status,
                   scan_vars, out_vars>>

\* the environment of a direct call
DirectCallEnv ==
    /\ argv = [network |-> <<>>, input |-> <<>>]
    /\ platform \in {"windows", "linux"}
    /\ ping_installed \in BOOLEAN
    /\ today \in Days
    /\ fs = EmptyMap
    /\ runs = 1
    /\ written = EmptyMap
    /\ exit_status = <<>>
    /\ ip_list = <<>>
    /\ results = EmptyMap
    /\ si = 1
    /\ futures = <<>>
    /\ executor = NoExecutor
    /\ current_date = <<>>
    /\ oi = 1
    /\ console = <<>>
    /\ probe_calls = EmptyMap
    /\ arrived = EmptyMap
    /\ overtaken = FALSE
    /\ subnet_results = EmptyMap
    /\ slept = 0

\* display_progress is called with a total, a current count and a
\* reachable_count of None or a number
InitProgress ==
    /\ entry = "display_progress"
    /\ pc = "display_progress"
    /\ DirectCallEnv
    /\ platform = "linux"
    /\ ping_installed
    /\ today = 6
    /\ subnet_map = <<>>
    /\ ping_function = "none"
    /\ \E total \in 1..MaxTotal, current \in 0..MaxTotal, rc \in {<<>>, <<0>>} :
          /\ current <= total
          /\ scan = [NoScan EXCEPT !.subnet = NetC, !.subnet_ips = AddressList(total),
                                   !.total = total, !.completed = current,
                                   !.arg_reachable_count = rc]

\* ping_subnet_with_threadpool(subnet, subnet_ips, ping_function) is called
\* with a subnet's address set and a ping_function that may raise
InitInjected ==
    /\ entry = "ping_subnet_with_threadpool"
    /\ pc = "scan"
    /\ DirectCallEnv
    /\ scan = NoScan
    /\ ping_function \in {check_os(platform), "injected"}
    /\ \E subnet \in {NetA, NetB, NetC, NetD} :
          subnet_map = <<[key |-> subnet, value |-> SubnetIps(IPv4Network(subnet))]>>

\* "a.b.c.d/p" for the address number n and the prefix length p
NetworkText(n, p) == FormatAddress(n) \o <<"/">> \o DecString(p)

\* the subnets given to a direct call of parse_args: for every number of
\* host bits h up to MaxHostBits, four consecutive blocks of 2^h addresses
\* from 1.0.0.0 and from 10.1.252.0 (the blocks from 10.1.252.0 run over the
\* end of the third octet), and the same with the lowest host bit set
ExpandTexts ==
    {NetworkText(b + m * Pow2(h) + low, 32 - h) :
        b \in {16777216, 167902208}, h \in 0..MaxHostBits, m \in 0..3, low \in {0, 1}}

\* each subnet is given with -n, and as the only row of an input file
ExpandArgvs ==
    {[network |-> <<t>>, input |-> <<>>] : t \in ExpandTexts}
    \cup {[network |-> <<>>, input |-> <<[exists |-> TRUE, rows |-> <<<<t>>>>]>>] :
             t \in ExpandTexts}

\* parse_args is called directly
InitExpand ==
    /\ entry = "parse_args"
    /\ argv \in ExpandArgvs
    /\ platform = "linux"
    /\ ping_installed = TRUE
    /\ today = 6
    /\ fs = EmptyMap
    /\ runs = 1
    /\ written = EmptyMap
    /\ Fresh

\* the command lines of the runs the user may interrupt: one subnet of two
\* and one of six addresses, and files of two subnets
InterruptArgvs ==
    {[network |-> <<n>>, input |-> <<>>] : n \in {NetA, NetC}}
    \cup {[network |-> <<>>, input |-> <<[exists |-> TRUE, rows |-> <<<<a>>, <<b>>>>]>>] :
             a, b \in {NetA, NetB}}

InitInterrupt ==
    /\ InitMain
    /\ argv \in InterruptArgvs

\* os_detector.py is run on a subnet given with -n
InitSequential ==
    /\ entry = "os_detector"
    /\ pc = "seq_main"
    /\ argv \in {[network |-> <<n>>, input |-> <<>>] : n \in NetworkArgs}
    /\ platform \in Platforms
    /\ ping_installed \in BOOLEAN
    /\ today = 6
    /\ fs = EmptyMap
    /\ runs = 1
    /\ written = EmptyMap
    /\ exit_status = <<>>
    /\ ip_list = <<>>
    /\ subnet_map = <<>>
    /\ ping_function = "none"
    /\ results = EmptyMap
    /\ si = 1
    /\ scan = NoScan
    /\ futures = <<>>
    /\ executor = NoExecutor
    /\ current_date = <<>>
    /\ oi = 1
    /\ console = <<>>
    /\ probe_calls = EmptyMap
    /\ arrived = EmptyMap
    /\ overtaken = FALSE
    /\ subnet_results = EmptyMap
    /\ slept = 0

\* subnet-scraper.py is run on one subnet given with -n, or os_detector.py
\* is run
InitPacing ==
    \/ InitMain /\ argv \in {[network |-> <<n>>, input |-> <<>>] : n \in {NetA, NetC, BadWord}}
    \/ InitSequential

\* the command is run up to MaxRuns times on one results directory
InitRerun ==
    /\ InitMain
    /\ argv \in RerunArgvs

Init == InitMain \/ InitProgress

MainNext ==
    \/ ParseArgs
    \/ CheckOs
    \/ ScanStart
    \/ Submit
    \/ WorkerStart
    \/ WorkerFinish
    \/ Collect
    \/ ScanReturn
    \/ Summarize
    \/ OutputWrite

Next == MainNext \/ DisplayProgressCall

NextRerun == MainNext \/ Rerun

NextInjected ==
    \/ ScanStart
    \/ Submit
    \/ WorkerStart
    \/ WorkerFinish
    \/ Collect
    \/ ScanReturn

\* one run of the command, or one direct call of display_progress
Spec == Init /\ [][Next]_vars

\* the command run repeatedly on the same results directory
SpecRerun == InitRerun /\ [][NextRerun]_vars

\* ping_subnet_with_threadpool called directly
SpecInjected == InitInjected /\ [][NextInjected]_vars

\* parse_args called directly
SpecExpand == InitExpand /\ [][ParseArgs]_vars

NextInterrupt == MainNext \/ Interrupt \/ InterruptExit

NextPacing == MainNext \/ SeqStart \/ SeqPing \/ SeqSleep

\* one run of the concurrent scanner subnet-scraper.py, or one run of the
\* sequential scanner os_detector.py
SpecPacing == InitPacing /\ [][NextPacing]_vars

\* one run of the command, which the user may interrupt during the scans
SpecInterrupt == InitInterrupt /\ [][NextInterrupt]_vars

NextAbort == MainNext \/ Interrupt \/ InterruptExit \/ UnexpectedError \/ UnexpectedErrorExit

\* one run of the command, which an interrupt or an exception may end during
\* the scans
SpecAbort == InitInterrupt /\ [][NextAbort]_vars

(***************************************************************************)
(* Properties                                                              *)
(***************************************************************************)
\* the probe calls made for address ip in the current scan
Returned(ip) == probe_calls[ip].returned

\* C1: whenever ping_subnet_with_threadpool has returned, whatever each probe
\* did (returned True, returned False or raised), the keys of the returned
\* map are exactly the addresses of the subnet's address set, as many as the
\* address set has, each mapped to a boolean, and an address whose probe
\* raised is mapped to False.
C1_ResultCoversAddressSet ==
    scan.returned =>
        /\ DOMAIN scan.results = Range(scan.subnet_ips)
        /\ Cardinality(DOMAIN scan.results) = Len(scan.subnet_ips)
        /\ entry # "main" => results = scan.results
        /\ \A ip \in DOMAIN scan.results :
              /\ scan.results[ip] \in BOOLEAN
              /\ (\E i \in 1..Len(Returned(ip)) : Returned(ip)[i].raised)
                     => scan.results[ip] = FALSE

\* C1 witness: a scan of six addresses has returned; one probe raised, one
\* returned True and one returned False.
C1_Witness ==
    /\ scan.returned
    /\ Len(scan.subnet_ips) = 6
    /\ \E a, b, c \in DOMAIN scan.results :
          /\ Returned(a)[1].raised
          /\ ~Returned(b)[1].raised /\ Returned(b)[1].value
          /\ ~Returned(c)[1].raised /\ ~Returned(c)[1].value

\* C2: in every state of a scan, the outcome stored in the result map for an
\* address is the value returned by the probe call that was submitted for
\* that address, in whatever order the probes finished.
C2_OutcomeAttributedToItsAddress ==
    \A ip \in DOMAIN scan.results :
        /\ ip \in DOMAIN probe_calls
        /\ Len(Returned(ip)) >= 1
        /\ scan.results[ip] = Returned(ip)[1].value

\* C2 witness: a scan has returned in which a probe finished before one
\* submitted earlier, and the addresses have different outcomes.
C2_Witness ==
    /\ entry = "main"
    /\ scan.returned
    /\ overtaken
    /\ \E a, b \in DOMAIN scan.results : scan.results[a] /\ ~scan.results[b]

\* the addresses of subnet in subnet_map
IpsOf(subnet) ==
    LET i == CHOOSE k \in 1..Len(subnet_map) : subnet_map[k].key = subnet
    IN  subnet_map[i].value

\* every probe outcome of subnet has arrived
AllArrived(subnet) ==
    /\ subnet \in DOMAIN arrived
    /\ arrived[subnet] = Range(IpsOf(subnet))

\* C3: in a run of the program, a final progress report of a subnet has been
\* printed, a subnet's result map has been returned, or a subnet's output
\* record has been opened for writing only when every probe outcome of that
\* subnet has arrived (and, for the return, no probe is queued or running).
C3_CompletionIsSynchronizationPoint ==
    entry = "main" =>
        /\ \A i \in 1..Len(console) :
              console[i].kind \in {"final", "writing"} => AllArrived(console[i].subnet)
        /\ \A k \in 1..Len(subnet_map) :
              (k < si \/ (k = si /\ scan.returned /\ scan.subnet = subnet_map[k].key))
                  => AllArrived(subnet_map[k].key)
        /\ scan.returned =>
              /\ executor.running = {}
              /\ Len(executor.work_queue) = 0
        /\ \A p \in DOMAIN written :
              p[1] = current_date => AllArrived(p[2])

\* C3 witness: a session of two subnets has ended with both records written,
\* after a scan in which probes finished out of order.
C3_Witness ==
    /\ entry = "main"
    /\ pc = "done"
    /\ Len(subnet_map) = 2
    /\ overtaken
    /\ Cardinality(DOMAIN fs) = 2
    /\ \E i \in 1..Len(console) : console[i].kind = "final"

\* C4: in every state the number of probe calls running is at most the pool
\* size, a submitted probe that is not running and not finished waits in the
\* queue, and the pool size does not change while the executor lives.
C4_BoundedFixedPool ==
    /\ [](/\ Cardinality(executor.running) <= executor.max_workers
          /\ \A j \in 1..Len(futures) :
                /\ futures[j].state = "PENDING"
                      <=> \E q \in 1..Len(executor.work_queue) :
                             executor.work_queue[q].future = j
                /\ futures[j].state = "RUNNING"
                      <=> \E w \in executor.running : w.future = j)
    /\ [][executor.alive /\ executor'.alive
             => executor'.max_workers = executor.max_workers]_vars

\* C4 witness: every address of a subnet has been submitted, the pool is
\* full and the remaining probes wait in the queue.
C4_Witness ==
    /\ entry = "main"
    /\ pc = "collect"
    /\ Len(futures) = Len(scan.subnet_ips)
    /\ Cardinality(executor.running) = executor.max_workers
    /\ Len(executor.work_queue) >= 2

\* C5: during one scan no address is submitted to the pool more than once
\* and no address is probed by more than one call, whether its probe
\* returned True, returned False or raised; when the scan has returned,
\* every address has been submitted and probed exactly once.
C5_OneProbePerAddress ==
    /\ \A ip \in DOMAIN probe_calls :
          /\ probe_calls[ip].submitted <= 1
          /\ Len(Returned(ip)) <= probe_calls[ip].submitted
    /\ \A j, k \in 1..Len(futures) : futures[j].ip = futures[k].ip => j = k
    /\ scan.returned =>
          \A i \in 1..Len(scan.subnet_ips) :
              /\ probe_calls[scan.subnet_ips[i]].submitted = 1
              /\ Len(Returned(scan.subnet_ips[i])) = 1

\* C5 witness: a scan has returned in which one probe raised, one returned
\* False and one returned True.
C5_Witness ==
    /\ scan.returned
    /\ \E a, b, c \in DOMAIN probe_calls :
          /\ Returned(a) = <<[raised |-> TRUE, value |-> FALSE]>>
          /\ Returned(b) = <<[raised |-> FALSE, value |-> FALSE]>>
          /\ Returned(c) = <<[raised |-> FALSE, value |-> TRUE]>>

\* the positions of the console lines of one kind about one subnet
Lines(kind, subnet) ==
    {i \in 1..Len(console) : console[i].kind = kind /\ console[i].subnet = subnet}

\* the run has ended
Ended == pc \in {"done", "exited", "returned"}

\* some step of the program is possible: the main thread is at a statement
\* that does not block, or blocks on a future that is finished or on workers
\* that have all ended, or a worker can start or finish a call
CanStep ==
    \/ pc \in {"parse_args", "check_os", "scan", "submit", "summary", "output"}
    \/ CanCollect
    \/ CanScanReturn
    \/ CanWorkerStart
    \/ CanWorkerFinish

\* C6: in a run of the program no probe call lets an exception escape; when
\* the ping executable cannot be spawned, every outcome recorded is False,
\* the run is never stuck before its end, and at its end the writing of a
\* record has been attempted for every subnet and has either failed with a
\* report or saved a record holding one "false" row per address.
C6_FailingProbeMechanism ==
    entry = "main" =>
        /\ \A j \in 1..Len(futures) : ~futures[j].raised
        /\ \A ip \in DOMAIN probe_calls :
              \A i \in 1..Len(Returned(ip)) : ~Returned(ip)[i].raised
        /\ \A i \in 1..Len(console) : console[i].kind # "probe_error"
        /\ ~ping_installed =>
              /\ \A ip \in DOMAIN results : results[ip] = FALSE
              /\ \A ip \in DOMAIN scan.results : scan.results[ip] = FALSE
              /\ ~Ended => CanStep
              /\ (pc = "done" /\ ping_function # "none") =>
                    \A k \in 1..Len(subnet_map) :
                        LET subnet == subnet_map[k].key
                            ips    == subnet_map[k].value
                            name   == FileName(current_date, subnet)
                        IN  /\ Lines("writing", subnet) # {}
                            /\ \/ Lines("saved", subnet) # {}
                               \/ Lines("write_error", subnet) # {}
                            /\ Lines("saved", subnet) # {} =>
                                  /\ name \in DOMAIN fs
                                  /\ Len(fs[name]) = Len(ips) + 1
                                  /\ \A i \in 1..Len(ips) :
                                        fs[name][i + 1] = <<ips[i], "false">>

\* C6 witness: with no ping executable, a session of two subnets has ended
\* and both records are saved.
C6_Witness ==
    /\ entry = "main"
    /\ ~ping_installed
    /\ pc = "done"
    /\ Len(subnet_map) = 2
    /\ \A k \in 1..2 : Lines("saved", subnet_map[k].key) # {}
    /\ Cardinality(DOMAIN fs) = 2

\* "1.0.0.1" and "1.0.0.2", the addresses of NetA
Ip1 == <<"1", ".", "0", ".", "0", ".", "1">>

Ip2 == <<"1", ".", "0", ".", "0", ".", "2">>

\* C7: for every subnet of the session whose record output() has saved, the
\* record holds the header row and then exactly one row per address of the
\* subnet's address set, in the order of the address set, each pairing the
\* address with "true" or "false" as the session's result map holds True or
\* False for it; a session all of whose records are saved leaves one record
\* per subnet.  For "-n 1.0.0.0/30" with probe(.1) = True and
\* probe(.2) = False the record is 1.0.0.1,true then 1.0.0.2,false and the
\* summary reports 1 out of 2.
C7_RecordMatchesAddressSet ==
    entry = "main" =>
        /\ \A k \in 1..Len(subnet_map) :
              LET subnet == subnet_map[k].key
                  ips    == subnet_map[k].value
                  name   == FileName(current_date, subnet)
              IN  Lines("saved", subnet) # {} =>
                      /\ name \in DOMAIN fs
                      /\ Len(fs[name]) = Len(ips) + 1
                      /\ fs[name][1] = <<"IP Address", "Reachable">>
                      /\ \A i \in 1..Len(ips) :
                            /\ fs[name][i + 1][1] = ips[i]
                            /\ fs[name][i + 1][2] =
                                  (IF results[ips[i]] THEN "true" ELSE "false")
        /\ (pc = "done" /\ \A k \in 1..Len(subnet_map) :
                               Lines("saved", subnet_map[k].key) # {})
              => Cardinality(DOMAIN fs) = Len(subnet_map)
        /\ (/\ argv.network = <<NetA>>
            /\ Lines("saved", NetA) # {}
            /\ Returned(Ip1) = <<[raised |-> FALSE, value |-> TRUE]>>
            /\ Returned(Ip2) = <<[raised |-> FALSE, value |-> FALSE]>>)
              => /\ fs[FileName(current_date, NetA)] =
                       <<<<"IP Address", "Reachable">>, <<Ip1, "true">>, <<Ip2, "false">>>>
                 /\ \E i \in 1..Len(console) :
                       console[i] = [kind |-> "summary", reachable |-> 1, total |-> 2]

\* C7 witness: the run of "-n 1.0.0.0/30" with probe(.1) = True and
\* probe(.2) = False has saved its record.
C7_Witness ==
    /\ entry = "main"
    /\ pc = "done"
    /\ argv.network = <<NetA>>
    /\ Lines("saved", NetA) # {}
    /\ Returned(Ip1) = <<[raised |-> FALSE, value |-> TRUE]>>
    /\ Returned(Ip2) = <<[raised |-> FALSE, value |-> FALSE]>>

\* the file names of the (date, subnet) pairs whose file was opened
WrittenNames == {FileName(p[1], p[2]) : p \in DOMAIN written}

\* C8: over the runs sharing a results directory, the directory holds
\* exactly one record per (date, subnet) pair whose file was opened for
\* writing: the same pair gives the same name, so a second run overwrites,
\* and two pairs that differ in the subnet or in the date give different
\* names.
C8_OneRecordPerDateAndSubnet ==
    /\ DOMAIN fs = WrittenNames
    /\ Cardinality(DOMAIN fs) = Cardinality(DOMAIN written)
    /\ \A p, q \in DOMAIN written :
          FileName(p[1], p[2]) = FileName(q[1], q[2]) <=> p = q

\* C8 witness: the second run has written the record of the same subnet on
\* the same date as the first, and the directory holds one record.
C8_Witness ==
    /\ runs = 2
    /\ pc = "done"
    /\ \E p \in DOMAIN written : written[p] = 2
    /\ Cardinality(DOMAIN fs) = 1

\* C8 witness of distinct subnets on one date: two records.
C8_WitnessDistinct ==
    /\ runs = 2
    /\ pc = "done"
    /\ \E p, q \in DOMAIN written : p[1] = q[1] /\ p[2] # q[2]
    /\ Cardinality(DOMAIN fs) = 2

\* C9: every attempt to write a record is followed by its confirmation or by
\* an error report for the same subnet; while output() runs, one attempt has
\* been made for each subnet already passed, and when it has ended one
\* attempt has been made for every subnet of the session, whichever of the
\* attempts failed.
C9_WriteFailureIsReportedPerSubnet ==
    entry = "main" =>
        /\ \A i \in 1..Len(console) :
              console[i].kind = "writing" =>
                  /\ i < Len(console)
                  /\ console[i + 1].kind \in {"saved", "write_error"}
                  /\ console[i + 1].subnet = console[i].subnet
        /\ \A k \in 1..Len(subnet_map) :
              LET subnet   == subnet_map[k].key
                  attempts == Cardinality(Lines("writing", subnet))
                  reports  == Cardinality(Lines("saved", subnet))
                              + Cardinality(Lines("write_error", subnet))
              IN  /\ attempts = reports
                  /\ attempts = (IF (pc = "output" /\ k < oi)
                                    \/ (pc = "done" /\ ping_function # "none")
                                 THEN 1 ELSE 0)
                  /\ Lines("saved", subnet) # {}
                        => FileName(current_date, subnet) \in DOMAIN fs

\* C9 witness: writing the first subnet's record failed and was reported,
\* and the second subnet's record was then saved.
C9_Witness ==
    /\ entry = "main"
    /\ pc = "done"
    /\ Len(subnet_map) = 2
    /\ Lines("write_error", subnet_map[1].key) # {}
    /\ Lines("saved", subnet_map[2].key) # {}

\* the checkpoint values of a scan of total addresses
Checkpoints(total) ==
    {1, total \div 4, total \div 2, (3 * total) \div 4, total}

\* the completed counts at which the notifications about subnet were
\* printed, in the order of printing
NotifiedAt(subnet) ==
    LET idx == {i \in 1..Len(console) :
                   console[i].kind \in {"progress", "final"} /\ console[i].subnet = subnet}
        RECURSIVE Collected(_)
        Collected(i) ==
            IF i > Len(console) THEN <<>>
            ELSE IF i \in idx THEN <<console[i].at>> \o Collected(i + 1)
            ELSE Collected(i + 1)
    IN  Collected(1)

\* the completed counts reached so far in the scan of the k-th subnet
CompletedOf(k) ==
    IF k < si THEN Len(subnet_map[k].value)
    ELSE IF k = si /\ scan.subnet = subnet_map[k].key THEN scan.completed
    ELSE 0

\* C10: in a run of the program, the notifications printed for a subnet are
\* at exactly the completed counts c reached so far with c in
\* {1, floor(total/4), floor(total/2), floor(3*total/4), total}, once each
\* and in ascending order; a direct call display_progress(current, total)
\* prints a notification if and only if current is one of these values; for
\* total = 40 these are the counts 1, 10, 20, 30 and 40.
C10_NotificationsAtCheckpoints ==
    /\ entry = "main" =>
          \A k \in 1..Len(subnet_map) :
              LET at    == NotifiedAt(subnet_map[k].key)
                  total == Len(subnet_map[k].value)
              IN  /\ Range(at) = {c \in 1..CompletedOf(k) : c \in Checkpoints(total)}
                  /\ \A i, j \in 1..Len(at) : i < j => at[i] < at[j]
    /\ (entry = "display_progress" /\ pc = "returned") =>
          /\ Len(console) <= 1
          /\ Len(console) = 1 <=> scan.completed \in Checkpoints(scan.total)
          /\ scan.total = 40 =>
                (Len(console) = 1 <=> scan.completed \in {1, 10, 20, 30, 40})

\* C10 witness: the scan of a subnet of six addresses has returned with
\* notifications at the counts 1, 3, 4 and 6 and none at 2 and 5.
C10_Witness ==
    /\ entry = "main"
    /\ scan.returned
    /\ scan.total = 6
    /\ NotifiedAt(scan.subnet) = <<1, 3, 4, 6>>

\* C10 witness of the direct call: total = 40, a notification at 30.
C10_WitnessForty ==
    /\ entry = "display_progress"
    /\ pc = "returned"
    /\ scan.total = 40
    /\ scan.completed = 30
    /\ Len(console) = 1

\* the notifications printed about subnet, in the order of printing
NotificationsOf(subnet) ==
    LET RECURSIVE Collected(_)
        Collected(i) ==
            IF i > Len(console) THEN <<>>
            ELSE IF console[i].kind \in {"progress", "final"} /\ console[i].subnet = subnet
            THEN <<console[i]>> \o Collected(i + 1)
            ELSE Collected(i + 1)
    IN  Collected(1)

\* C11: in a run of the program, for every subnet with at least one address,
\* a final notification has been printed exactly once if the completed count
\* has reached the total and not at all before; it is the last notification
\* of the subnet and the only one carrying a reachable count, which equals
\* the number of addresses mapped to True in the result map of the subnet's
\* scan (the map being built, and the map returned).  A direct call of
\* display_progress prints a final notification only when given a reachable
\* count with current = total.
C11_OneFinalNotification ==
    /\ entry = "main" =>
          \A k \in 1..Len(subnet_map) :
              LET subnet == subnet_map[k].key
                  total  == Len(subnet_map[k].value)
                  notes  == NotificationsOf(subnet)
                  finals == Lines("final", subnet)
              IN  total >= 1 =>
                      /\ Cardinality(finals) = (IF CompletedOf(k) = total THEN 1 ELSE 0)
                      /\ \A i \in 1..Len(notes) :
                            /\ notes[i].kind = "final" <=> notes[i].at = total
                            /\ notes[i].kind = "final" => i = Len(notes)
                      /\ (k = si /\ scan.subnet = subnet) =>
                            \A i \in finals :
                                console[i].reachable = CountReachable(scan.results)
                      /\ subnet \in DOMAIN subnet_results =>
                            /\ Cardinality(finals) = 1
                            /\ \A i \in finals :
                                  console[i].reachable =
                                      CountReachable(subnet_results[subnet])
    /\ (entry = "display_progress" /\ pc = "returned") =>
          \A i \in 1..Len(console) :
              console[i].kind = "final"
                  <=> (scan.arg_reachable_count # <<>> /\ scan.completed = scan.total)

\* C11 witness: the scan of a subnet of six addresses has returned a map
\* with three addresses reachable, after three progress notifications and
\* one final notification carrying the count 3.
C11_Witness ==
    /\ entry = "main"
    /\ scan.returned
    /\ scan.total = 6
    /\ CountReachable(subnet_results[scan.subnet]) = 3
    /\ Len(NotificationsOf(scan.subnet)) = 4
    /\ NotificationsOf(scan.subnet)[4].kind = "final"
    /\ NotificationsOf(scan.subnet)[4].reachable = 3

\* the rows of the input file
InputRows == argv.input[1].rows

\* the rows a file can hold whose first cell, stripped, is a valid subnet,
\* and those whose first cell is malformed (a blank line is neither)
ValidRowCandidates ==
    {row \in RowCandidates : Len(row) > 0 /\ IPv4Network(Strip(row[1])).ok}

MalformedRowCandidates ==
    {row \in RowCandidates : Len(row) > 0 /\ ~IPv4Network(Strip(row[1])).ok}

\* the positions of the valid and of the malformed rows of the input file
ValidRows == {i \in 1..Len(InputRows) : InputRows[i] \in ValidRowCandidates}

MalformedRows == {i \in 1..Len(InputRows) : InputRows[i] \in MalformedRowCandidates}

ValidSubnets == {Strip(InputRows[i][1]) : i \in ValidRows}

\* the subnets named by the console lines of one kind
SubnetsWith(kind) ==
    {console[i].subnet : i \in {j \in 1..Len(console) : console[j].kind = kind}}

\* C12: when the input is a file with at least one valid subnet, parse_args
\* has printed one warning per malformed line and has not ended the run;
\* subnet_map holds exactly the valid subnets of the file; no other subnet
\* is ever scanned or written; and when the run has ended on a supported
\* platform, the subnets scanned and the subnets whose record output() has
\* written (saved, or reported as failed) are exactly the valid subnets.
C12_MalformedLinesAreSkipped ==
    (/\ entry = "main"
     /\ Len(argv.input) = 1
     /\ argv.input[1].exists
     /\ ValidRows # {}
     /\ pc # "parse_args") =>
        /\ pc # "exited"
        /\ exit_status # <<1>>
        /\ Cardinality({i \in 1..Len(console) : console[i].kind = "warning"})
              = Cardinality(MalformedRows)
        /\ SubnetsWith("warning") = {Strip(InputRows[i][1]) : i \in MalformedRows}
        /\ {subnet_map[k].key : k \in 1..Len(subnet_map)} = ValidSubnets
        /\ Len(subnet_map) = Cardinality(ValidSubnets)
        /\ SubnetsWith("start_scan") \subseteq ValidSubnets
        /\ DOMAIN subnet_results \subseteq ValidSubnets
        /\ SubnetsWith("writing") \subseteq ValidSubnets
        /\ DOMAIN fs \subseteq {FileName(current_date, sn) : sn \in ValidSubnets}
        /\ (pc = "done" /\ ping_function # "none") =>
              /\ SubnetsWith("start_scan") = ValidSubnets
              /\ DOMAIN subnet_results = ValidSubnets
              /\ SubnetsWith("writing") = ValidSubnets
              /\ SubnetsWith("saved") \cup SubnetsWith("write_error") = ValidSubnets
              /\ DOMAIN fs = {FileName(current_date, sn) : sn \in SubnetsWith("saved")}
                                 \cup {FileName(current_date, sn) :
                                          sn \in {x \in SubnetsWith("write_error") :
                                                     FileName(current_date, x) \in DOMAIN fs}}

\* C12 witness: the file holds the line "not-a-subnet" and then one valid
\* subnet; the run has ended with a warning for the first line and the
\* record of the valid subnet saved.
C12_Witness ==
    /\ entry = "main"
    /\ argv.input = <<[exists |-> TRUE, rows |-> <<<<BadWord>>, <<NetA>>>>]>>
    /\ pc = "done"
    /\ SubnetsWith("warning") = {BadWord}
    /\ SubnetsWith("start_scan") = {NetA}
    /\ SubnetsWith("saved") = {NetA}

\* the values of -n that are no valid subnet
InvalidNetworkArgs == {n \in NetworkArgs : ~IPv4Network(n).ok}

\* the primary input is completely invalid: an unparseable -n subnet, an
\* input file that is not found, or an input file with no valid subnet
InvalidPrimaryInput ==
    \/ Len(argv.network) = 1 /\ argv.network[1] \in InvalidNetworkArgs
    \/ Len(argv.input) = 1 /\ ~argv.input[1].exists
    \/ Len(argv.input) = 1 /\ argv.input[1].exists /\ ValidRows = {}

\* C13: in a run of the program on a completely invalid primary input, once
\* parse_args has run the process has ended with status 1 after an error
\* line, and no scan was started, no probe was submitted or run, and no
\* record was written.
C13_InvalidInputEndsTheRun ==
    (entry = "main" /\ InvalidPrimaryInput /\ pc # "parse_args") =>
        /\ pc = "exited"
        /\ exit_status = <<1>>
        /\ Len(console) >= 1
        /\ console[Len(console)].kind = "error"
        /\ \A i \in 1..Len(console) : console[i].kind \in {"warning", "error"}
        /\ futures = <<>>
        /\ executor = NoExecutor
        /\ probe_calls = EmptyMap
        /\ arrived = EmptyMap
        /\ subnet_results = EmptyMap
        /\ results = EmptyMap
        /\ fs = EmptyMap
        /\ written = EmptyMap

\* C13 witness: a file whose only line is malformed has ended the run with
\* status 1, after a warning and an error line.
C13_Witness ==
    /\ entry = "main"
    /\ argv.input = <<[exists |-> TRUE, rows |-> <<<<BadWord>>>>]>>
    /\ pc = "exited"
    /\ exit_status = <<1>>
    /\ Len(console) = 2

\* C13 witnesses of the other two cases: an unparseable -n subnet, and an
\* input file that is not found.
C13_WitnessNetwork ==
    /\ entry = "main"
    /\ argv.network = <<BadHostBits>>
    /\ pc = "exited"

C13_WitnessNotFound ==
    /\ entry = "main"
    /\ Len(argv.input) = 1
    /\ ~argv.input[1].exists
    /\ pc = "exited"

\* the numbers of a list of dotted-decimal addresses
AddressNumbers(ips) == [i \in 1..Len(ips) |-> ParseAddress(ips[i])]

\* C14: for every subnet parse_args has accepted whose prefix length p is at
\* most 30, the address list of the subnet has exactly 2^(32-p) - 2 entries,
\* each a dotted-decimal address inside the subnet, in strictly ascending
\* numeric order (so without duplicates), and neither the network address
\* nor the broadcast address is among them; a -n subnet's list is ip_list.
C14_HostExpansion ==
    /\ \A k \in 1..Len(subnet_map) :
          LET net   == IPv4Network(subnet_map[k].key)
              ips   == subnet_map[k].value
              nums  == AddressNumbers(ips)
              first == net.network_address
              last  == net.network_address + Pow2(32 - net.prefixlen) - 1
          IN  /\ net.ok
              /\ net.prefixlen <= 30 =>
                    /\ Len(ips) = Pow2(32 - net.prefixlen) - 2
                    /\ \A i \in 1..Len(ips) : first < nums[i] /\ nums[i] < last
                    /\ \A i \in 1..(Len(ips) - 1) : nums[i] < nums[i + 1]
                    /\ \A i, j \in 1..Len(ips) : ips[i] = ips[j] => i = j
                    /\ \A i \in 1..Len(ips) : nums[i] # first /\ nums[i] # last
                    /\ \A i \in 1..Len(ips) : ips[i] = FormatAddress(first + i)
    /\ (Len(argv.network) = 1 /\ Len(subnet_map) = 1) => ip_list = subnet_map[1].value

\* "10.1.254.0/23", "10.1.254.255" and "10.1.255.0"
Net23 == <<"1", "0", ".", "1", ".", "2", "5", "4", ".", "0", "/", "2", "3">>

Ip254x255 == <<"1", "0", ".", "1", ".", "2", "5", "4", ".", "2", "5", "5">>

Ip255x0 == <<"1", "0", ".", "1", ".", "2", "5", "5", ".", "0">>

\* C14 witness: parse_args has expanded 10.1.254.0/23 into 510 addresses,
\* from 10.1.254.1 to 10.1.255.254, running from 10.1.254.255 to 10.1.255.0.
C14_Witness ==
    /\ entry = "parse_args"
    /\ pc = "check_os"
    /\ argv.network = <<Net23>>
    /\ Len(ip_list) = 510
    /\ ip_list[255] = Ip254x255
    /\ ip_list[256] = Ip255x0
    /\ HostPart(ip_list[1]) = <<"1">>
    /\ HostPart(ip_list[510]) = <<"2", "5", "4">>

\* the addresses scanned in the session so far: those whose probe has
\* finished in the scan of some subnet
ScannedAddresses == UNION {arrived[sn] : sn \in DOMAIN arrived}

\* C15 (as claimed): the summary line "R out of T hosts are reachable"
\* reports T equal to the number of addresses that were scanned, each
\* counted once, and R equal to the number of scanned addresses whose outcome
\* is True, so R <= T.
C15_SummaryCountsScannedAddresses ==
    entry = "main" =>
        \A i \in 1..Len(console) :
            console[i].kind = "summary" =>
                /\ console[i].total = Cardinality(ScannedAddresses)
                /\ console[i].reachable =
                      Cardinality({ip \in ScannedAddresses : results[ip]})
                /\ console[i].reachable <= console[i].total

\* C16 (as claimed): in a run of the program, whenever a notification with
\* completed count c is printed, exactly c probes of the subnet have
\* completed, whichever addresses they belong to; and the counters completed
\* and subnet_reachable change only in the coordinator's own step, by one
\* per outcome, never in a worker's step.
C16_CountDrivenByCompletion ==
    [][entry = "main" =>
          /\ (/\ Len(console') = Len(console) + 1
              /\ console'[Len(console')].kind \in {"progress", "final"})
                 => /\ console'[Len(console')].at = scan'.completed
                    /\ console'[Len(console')].at
                          = Cardinality(arrived'[console'[Len(console')].subnet])
          /\ (scan'.subnet = scan.subnet /\ scan'.completed # scan.completed)
                 => /\ scan'.completed = scan.completed + 1
                    /\ scan'.fi = scan.fi + 1
                    /\ scan'.subnet_reachable \in
                          {scan.subnet_reachable, scan.subnet_reachable + 1}
                    /\ futures' = futures
                    /\ executor' = executor
          /\ (futures' # futures \/ executor' # executor)
                 => /\ scan'.completed = scan.completed \/ scan'.subnet # scan.subnet
                    /\ scan'.subnet_reachable = scan.subnet_reachable
                          \/ scan'.subnet # scan.subnet]_vars

\* the run was interrupted and main's handler has run
InterruptHandled == \E i \in 1..Len(console) : console[i].kind = "interrupted"

\* C17: when KeyboardInterrupt has been raised during the scans, every
\* probe already submitted is still queued, running or finished (none is
\* cancelled or killed) and the run is not stuck: a worker can go on or the
\* with block can be left; the with block is left only when no probe is
\* queued or running, so when the run has ended every probe that was
\* submitted has run to completion; the run ends with the handler's line
\* and status 0; and no record was written, in part or in whole.
C17_InterruptLetsProbesFinish ==
    entry = "main" =>
        /\ pc = "interrupted" =>
              /\ \A j \in 1..Len(futures) :
                    \/ futures[j].state = "FINISHED"
                    \/ /\ futures[j].state = "RUNNING"
                       /\ \E w \in executor.running : w.future = j
                    \/ /\ futures[j].state = "PENDING"
                       /\ \E q \in 1..Len(executor.work_queue) :
                             executor.work_queue[q].future = j
              /\ CanInterruptExit \/ CanWorkerStart \/ CanWorkerFinish
              /\ CanInterruptExit =>
                    \A ip \in DOMAIN probe_calls :
                        Len(Returned(ip)) = probe_calls[ip].submitted
              /\ exit_status = <<>>
              /\ fs = EmptyMap
        /\ InterruptHandled =>
              /\ pc = "done"
              /\ exit_status = <<0>>
              /\ console[Len(console)].kind = "interrupted"
              /\ executor = NoExecutor
              /\ \A ip \in DOMAIN probe_calls :
                    /\ Len(Returned(ip)) = probe_calls[ip].submitted
                    /\ probe_calls[ip].submitted = 1 => ip \in arrived[scan.subnet]
              /\ fs = EmptyMap
              /\ written = EmptyMap
              /\ SubnetsWith("writing") = {}

\* C17 witness: the scan of six addresses was interrupted before any outcome
\* was collected; all six probes have run to completion and the run has
\* ended with status 0 and no record.
C17_Witness ==
    /\ entry = "main"
    /\ InterruptHandled
    /\ pc = "done"
    /\ scan.total = 6
    /\ scan.completed = 0
    /\ \A ip \in DOMAIN probe_calls : Len(Returned(ip)) = 1
    /\ Cardinality(arrived[scan.subnet]) = 6
    /\ fs = EmptyMap

\* C17 witness of the interrupt arriving with probes queued and running.
C17_WitnessQueued ==
    /\ pc = "interrupted"
    /\ Cardinality(executor.running) = executor.max_workers
    /\ Len(executor.work_queue) >= 2
    /\ scan.completed >= 1

\* the work items of the executor: queued and running
WorkItems == Range(executor.work_queue) \cup executor.running

\* C18: in a run of the program, every probe that is submitted, queued or
\* running belongs to the one subnet being scanned; the scan of a subnet is
\* left only when each of its probes has finished and none is queued or
\* running; a scan is started only when no executor is alive; and while the
\* k-th subnet is being scanned every probe of the earlier subnets has
\* finished and no later subnet has been started.
C18_OneSubnetAtATime ==
    /\ [](entry = "main" =>
            /\ \A w \in WorkItems :
                  /\ w.future \in 1..Len(futures)
                  /\ futures[w.future].ip = w.ip
            /\ \A j \in 1..Len(futures) :
                  /\ j <= Len(scan.subnet_ips)
                  /\ futures[j].ip = scan.subnet_ips[j]
            /\ (Len(futures) > 0 \/ executor.alive) =>
                  /\ si <= Len(subnet_map)
                  /\ scan.subnet = subnet_map[si].key
                  /\ scan.subnet_ips = subnet_map[si].value
                  /\ \A k \in 1..(si - 1) : AllArrived(subnet_map[k].key)
            /\ \A k \in 1..Len(subnet_map) :
                  k > si => subnet_map[k].key \notin SubnetsWith("start_scan"))
    /\ [][entry = "main" =>
             /\ (executor.alive /\ ~executor'.alive) =>
                   /\ \A j \in 1..Len(futures) : futures[j].state = "FINISHED"
                   /\ Len(futures) = Len(scan.subnet_ips)
                   /\ WorkItems = {}
                   /\ AllArrived(scan.subnet)
             /\ (executor'.alive /\ Len(futures') = 0) =>
                   /\ ~executor.alive
                   /\ Len(futures) = 0]_vars

\* C18 witness: the second subnet of a session is being scanned with the
\* pool full, every probe of the first subnet having finished.
C18_Witness ==
    /\ entry = "main"
    /\ si = 2
    /\ executor.alive
    /\ Cardinality(executor.running) = executor.max_workers
    /\ AllArrived(subnet_map[1].key)
    /\ subnet_map[1].key \in DOMAIN subnet_results

\* C19 (as claimed): for every subnet whose record output() has saved, the
\* outcome written for each address is the outcome that the subnet's own
\* scan returned for it, also when another subnet of the session contains
\* the address and its probe returned a different outcome.
C19_RecordHoldsOwnScanOutcome ==
    entry = "main" =>
        \A k \in 1..Len(subnet_map) :
            LET subnet == subnet_map[k].key
                ips    == subnet_map[k].value
                name   == FileName(current_date, subnet)
            IN  Lines("saved", subnet) # {} =>
                    \A i \in 1..Len(ips) :
                        fs[name][i + 1] =
                            <<ips[i], IF subnet_results[subnet][ips[i]]
                                      THEN "true" ELSE "false">>

\* C20 (as claimed): in the concurrent coordinator a pacing step of 100 ms
\* is applied between any two consecutive address submissions of a subnet:
\* when n >= 2 addresses have been submitted, at least n - 1 pacing steps
\* have been taken.
C20_SubmissionsArePaced ==
    entry = "main" =>
        (Len(futures) >= 2 => slept >= 100 * (Len(futures) - 1))

\* the number of probes the sequential scanner has run
SeqProbes == Cardinality({i \in 1..Len(console) : console[i].kind = "executing"})

\* C20 (amended): the pacing step is applied by the sequential scanner of
\* os_detector.py, which sleeps 100 ms after the probe of every address, so
\* once between any two consecutive probes, and runs no probe while another
\* is running; the concurrent coordinator of subnet-scraper.py applies no
\* pacing step: it never sleeps, every address of the subnet is submitted
\* before the first outcome is collected, and only the pool size bounds the
\* probes running at once.
C20_PacingOnlyInSequentialScanner ==
    /\ entry = "os_detector" =>
          /\ slept = 100 * (IF pc = "seq_sleep" THEN SeqProbes - 1 ELSE SeqProbes)
          /\ pc = "seq_ping" => SeqProbes = scan.fi - 1
          /\ pc = "done" /\ ping_function # "none" =>
                /\ SeqProbes = Len(scan.subnet_ips)
                /\ DOMAIN results = Range(scan.subnet_ips)
          /\ futures = <<>>
          /\ executor = NoExecutor
    /\ entry = "main" =>
          /\ slept = 0
          /\ pc \in {"collect", "shutdown"} => Len(futures) = Len(scan.subnet_ips)
          /\ pc = "submit" => scan.completed = 0
          /\ Cardinality(executor.running) <= executor.max_workers

\* C20 witness: the sequential scanner has probed the six addresses of a
\* subnet and has slept 100 ms after each.
C20_Witness ==
    /\ entry = "os_detector"
    /\ pc = "done"
    /\ SeqProbes = 6
    /\ slept = 600

\* C20 witness of the burst: the concurrent coordinator has submitted the
\* six addresses of a subnet without any sleep and before any outcome is
\* collected.
C20_WitnessBurst ==
    /\ entry = "main"
    /\ pc = "collect"
    /\ Len(futures) = 6
    /\ scan.completed = 0
    /\ slept = 0

\* the run was ended by an interrupt or an exception raised during the scans
Aborted ==
    \E i \in 1..Len(console) : console[i].kind \in {"interrupted", "unexpected_error"}

\* the loop of lines 348-357 has scanned every subnet of the session
AllSubnetsScanned ==
    /\ si > Len(subnet_map)
    /\ \A i \in 1..Len(subnet_map) : subnet_map[i].key \in DOMAIN subnet_results

\* output() has begun to persist: a file was opened or written, or the line
\* that announces a record was printed
PersistenceBegun ==
    \/ fs # EmptyMap
    \/ written # EmptyMap
    \/ SubnetsWith("writing") # {}

\* C21: persistence is deferred to the end of the session.  In a run of the
\* program no record is opened, written or announced before every subnet of
\* the session has been scanned; and when an interrupt or an unexpected
\* error is raised during the scan of a subnet, the run ends with status 0
\* and with no record written at all, also for the subnets whose scans had
\* already returned.
C21_PersistenceIsDeferred ==
    entry = "main" =>
        /\ PersistenceBegun =>
              /\ AllSubnetsScanned
              /\ pc \in {"output", "done"}
              /\ ~Aborted
        /\ ~AllSubnetsScanned => fs = EmptyMap /\ written = EmptyMap
        /\ pc \in {"interrupted", "failed"} => ~PersistenceBegun /\ exit_status = <<>>
        /\ Aborted =>
              /\ pc = "done"
              /\ exit_status = <<0>>
              /\ ~PersistenceBegun
              /\ SubnetsWith("saved") = {}

\* C21 witness: the user interrupted the scan of the second subnet of a file
\* of two after the scan of the first had returned its outcomes; the run
\* has ended and no record exists, not even that of the first subnet.
C21_Witness ==
    /\ entry = "main"
    /\ InterruptHandled
    /\ pc = "done"
    /\ Len(subnet_map) = 2
    /\ si = 2
    /\ subnet_map[1].key \in DOMAIN subnet_results
    /\ \E ip \in DOMAIN results : results[ip]
    /\ scan.subnet = subnet_map[2].key
    /\ fs = EmptyMap
    /\ written = EmptyMap

\* C21 witness of an exception: executor.submit raised during the scan of
\* the second subnet, after one probe of it had been submitted.
C21_WitnessError ==
    /\ entry = "main"
    /\ console # <<>>
    /\ console[Len(console)].kind = "unexpected_error"
    /\ pc = "done"
    /\ Len(subnet_map) = 2
    /\ si = 2
    /\ subnet_map[1].key \in DOMAIN subnet_results
    /\ scan.subnet = subnet_map[2].key
    /\ \E ip \in DOMAIN probe_calls : probe_calls[ip].submitted = 1
    /\ fs = EmptyMap
    /\ written = EmptyMap

\* C21 witness of the deferred persistence taking place: both subnets of a
\* file have been scanned and the first of the two records is written.
C21_WitnessWritten ==
    /\ entry = "main"
    /\ pc = "output"
    /\ Len(subnet_map) = 2
    /\ oi = 2
    /\ AllSubnetsScanned
    /\ Cardinality(DOMAIN fs) = 1

====
